---- MODULE Spec2Model ----
(***************************************************************************)
(* Model of the TileLang DLC code generator (src/target/codegen_dlc.cc)    *)
(* and of the DLC operation catalog (src/op/dlc.cc).                       *)
(*                                                                         *)
(* Identifiers are sequences of one-character strings, so that substring   *)
(* tests and suffix concatenation are computed, not assumed.               *)
(***************************************************************************)
EXTENDS Integers, Sequences, FiniteSets, TLC

VARIABLES
  phase,                 \* position of the lowering session
  function_names_,       \* CodeGenTileLangDLC::function_names_
  decl_stream,           \* declarations buffer
  stream,                \* body buffer
  name_map,              \* name_supply_: identifier -> counter
  var_idmap,             \* var_idmap_: bound variables of the current function
  alloc_storage_scope_,  \* alloc_storage_scope_: buffer -> recorded scope
  temps,                 \* loop temporaries issued so far in the pass
  last,                  \* result of the most recent visitor
  code,                  \* text returned by Finish
  lp, n, pcL, li, lens, ld0, ld1, st   \* execution of one emitted loop

vars == <<phase, function_names_, decl_stream, stream, name_map, var_idmap,
          alloc_storage_scope_, temps, last, code,
          lp, n, pcL, li, lens, ld0, ld1, st>>

sessVars == <<phase, function_names_, decl_stream, stream, name_map,
              var_idmap, alloc_storage_scope_, temps, last, code>>
loopVars == <<lp, n, pcL, li, lens, ld0, ld1, st>>

(***************************************************************************)
(* Bounds                                                                  *)
(***************************************************************************)
MaxN == 1100
MaxArgs == 10
MaxCalls == 2
MaxFuncs == 2
MaxItems == 2
MaxParams == 1
MaxAllocs == 2

(***************************************************************************)
(* Text helpers                                                            *)
(***************************************************************************)
Min(a, b) == IF a < b THEN a ELSE b

Digits == <<"0", "1", "2", "3", "4", "5", "6", "7", "8", "9">>

RECURSIVE ToDecimal(_)
ToDecimal(k) ==
  IF k < 10 THEN <<Digits[k + 1]>>
  ELSE ToDecimal(k \div 10) \o <<Digits[(k % 10) + 1]>>

\* std::string::find(sub) != npos
Contains(s, sub) ==
  \E k \in 1..(Len(s) - Len(sub) + 1) : SubSeq(s, k, k + Len(sub) - 1) = sub

ReplaceChar(s, from, to) ==
  [k \in 1..Len(s) |-> IF s[k] = from THEN to ELSE s[k]]

RECURSIVE SumSeq(_)
SumSeq(s) == IF s = <<>> THEN 0 ELSE Head(s) + SumSeq(Tail(s))

RECURSIVE Pow2(_)
Pow2(k) == IF k = 0 THEN 1 ELSE 2 * Pow2(k - 1)

\* An int64 value is written hi * 2^32 + lo with lo its low 32 bits read as
\* a signed 32-bit integer, so that values beyond 32 bits are represented
\* exactly: Int64(0, 5) is 5, Int64(1, 1) is 2^32 + 1.
Int64(hi, lo) == [hi |-> hi, lo |-> lo]

\* value of an int64 after conversion to a 32-bit int: the low 32 bits
ToInt32(v) == v.lo

\* value of an int64 after conversion to size_t: wrap * 2^64 + v
ToSizeT(v) == [wrap |-> IF v < 0 THEN 1 ELSE 0, v |-> v]

S_dlc_vec == <<"_", "d", "l", "c", "_", "v", "e", "c">>
S_x == <<"_", "x">>
S_y == <<"_", "y">>
S_o == <<"_", "o">>
S_i == <<"_", "i">>
S_len == <<"_", "l", "e", "n">>
S_mask == <<"_", "m", "a", "s", "k">>
S_scalar == <<"_", "s", "c", "a", "l", "a", "r">>
S_size128b == <<"_", "s", "i", "z", "e", "1", "2", "8", "b">>
S_vs == <<"_", "v", "s">>
S_sync == <<"s", "y", "n", "c">>
S_flag == <<"f", "l", "a", "g">>

(***************************************************************************)
(* Operation catalog (src/op/dlc.cc)                                       *)
(***************************************************************************)
BinaryOps == {"dlc_add", "dlc_sub", "dlc_mul", "dlc_div"}
ScalarOps == {"dlc_add_scalar", "dlc_sub_scalar", "dlc_mul_scalar",
              "dlc_div_scalar"}
UnaryOps == {"dlc_abs", "dlc_exp", "dlc_log", "dlc_sqrt", "dlc_rsqrt",
             "dlc_relu"}
MemoryOps == {"dlc_fill", "dlc_copy"}
SyncOps == {"dlc_sync", "dlc_sync_done", "dlc_sync_gte", "dlc_sync_clear",
            "dlc_barrier"}
CatalogOps == BinaryOps \cup ScalarOps \cup UnaryOps \cup MemoryOps
                \cup {"dlc_dma"} \cup SyncOps

\* set_num_inputs of every registration
CatalogArity(op) ==
  CASE op \in BinaryOps \cup ScalarOps -> 5
    [] op = "dlc_abs" -> 4
    [] op \in UnaryOps \ {"dlc_abs"} -> 3
    [] op \in MemoryOps -> 3
    [] op = "dlc_dma" -> 9
    [] op \in {"dlc_sync", "dlc_sync_done", "dlc_sync_clear"} -> 1
    [] op = "dlc_sync_gte" -> 2
    [] op = "dlc_barrier" -> 0

(***************************************************************************)
(* Name supply and variable binding (base code generator)                  *)
(***************************************************************************)
Keywords == {<<"i", "n", "t">>, <<"f", "o", "r">>}

\* NameSupplyNode::GetUniqueName: the first candidate not yet in the map,
\* trying name, name_<c+1>, name_<c+2>, ... and leaving the counter of
\* `name` at the last suffix tried.
RECURSIVE ProbeName(_, _, _)
ProbeName(nm, name, c) ==
  LET cand == name \o <<"_">> \o ToDecimal(c + 1) IN
  IF cand \in DOMAIN nm THEN ProbeName(nm, name, c + 1)
  ELSE [name |-> cand, c |-> c + 1]

FreshName(nm, raw) ==
  LET name == ReplaceChar(raw, ".", "_") IN
  IF name \in DOMAIN nm
  THEN LET p == ProbeName(nm, name, nm[name]) IN
       [name |-> p.name,
        nm |-> [k \in DOMAIN nm \cup {p.name} |->
                  IF k = name THEN p.c
                  ELSE IF k = p.name THEN 0 ELSE nm[k]]]
  ELSE [name |-> name,
        nm |-> [k \in DOMAIN nm \cup {name} |->
                  IF k = name THEN 0 ELSE nm[k]]]

EmptyMap == [k \in {} |-> 0]

\* CodeGenC::ReserveKeywordsAsUnique on a fresh name supply
ReserveKeywordsAsUnique == [k \in Keywords |-> 0]

\* CodeGenSourceBase::AllocVarID
AllocVarID(nm, hint) ==
  LET f == FreshName(nm, hint) IN
  [vid |-> ReplaceChar(ReplaceChar(ReplaceChar(f.name, ":", "_"),
                                   "-", "_"), ".", "_"),
   nm |-> f.nm]

(***************************************************************************)
(* Expressions and emitted text                                            *)
(*                                                                         *)
(* An operand is an integer literal [k |-> "int", v |-> int64] or a        *)
(* non-literal expression [k |-> "var", v |-> id].  The emitted text is a  *)
(* sequence of statements in textual order; E(args, p) stands for the      *)
(* text PrintExpr(op->args[p]) writes (p is the 0-based source index).     *)
(***************************************************************************)
IntImm(v) == [k |-> "int", v |-> v]
Lit(k) == IntImm(Int64(0, k))
VarExpr(v) == [k |-> "var", v |-> v]

E(args, p) == [i |-> "expr", pos |-> p, a |-> args[p + 1]]
Sym(s) == [i |-> "sym", s |-> s]
Num(v) == [i |-> "num", v |-> v]

\* std::to_string of a 32-bit int, as the int64 value it denotes
IntText(space) == Num(Int64(0, space))

\* GetDLCAddressSpaceName(int space)
GetDLCAddressSpaceName(space) ==
  CASE space = 0 -> Sym("SMEM")
    [] space = 1 -> Sym("HBM")
    [] space = 2 -> Sym("VMEM")
    [] space = 3 -> Sym("CMEM")
    [] space = 4 -> Sym("IMEM")
    [] space = 5 -> Sym("SEMAPHORE")
    [] OTHER -> IntText(space)

\* a space-code operand of dlc_dma: the int64 literal value is passed to the
\* int parameter of GetDLCAddressSpaceName
SpaceItem(args, p) ==
  IF args[p + 1].k = "int"
  THEN GetDLCAddressSpaceName(ToInt32(args[p + 1].v))
  ELSE E(args, p)

FlagItem_Low32(args, p) ==
  IF args[p + 1].k = "int"
  THEN IF ToInt32(args[p + 1].v) = 0 THEN Sym("NULL_SEMAPHORE")
       ELSE E(args, p)
  ELSE E(args, p)

\* a flag operand of dlc_dma
FlagItem(args, p) ==
  IF args[p + 1].k = "int"
  THEN IF args[p + 1].v = Int64(0, 0) THEN Sym("NULL_SEMAPHORE") ELSE E(args, p)
  ELSE E(args, p)

CallStmt(fn, items) == [t |-> "call", fn |-> fn, args |-> items]

\* result of lowering one call
Lowered(out, nm, tmp) ==
  [fatal |-> FALSE, delegated |-> FALSE, out |-> out, nm |-> nm, tmp |-> tmp]
\* a failed ICHECK: the process terminates, nothing is written
Fatal(nm) ==
  [fatal |-> TRUE, delegated |-> FALSE, out |-> <<>>, nm |-> nm, tmp |-> <<>>]

\* literals of the binary-family loop text
LoopStep == 1024
SubVec == 128
UnitDiv == 32
LenCap_SubVec == SubVec
LenCap == 1024
\* literals of the unary loop text
GranuleDiv == 32
UnaryStep == 32

LoopTempName_Prefix(nm) == [name |-> S_dlc_vec, nm |-> nm]

\* the name of one loop-nest: name_supply_->FreshName("_dlc_vec")
LoopTempName(nm) == FreshName(nm, S_dlc_vec)

EmitVectorBinaryOp(op_name, args, nm) ==
  IF Len(args) # 5 THEN Fatal(nm)
  ELSE
    LET f == LoopTempName(nm)
        t == f.name
    IN Lowered(
         << [t |-> "decl", ids |-> <<t \o S_x, t \o S_y, t \o S_o>>],
            [t |-> "for", idx |-> t \o S_i, init |-> 0,
             bound |-> E(args, 4), step |-> LoopStep],
            [t |-> "len", id |-> t \o S_len, of |-> E(args, 4),
             idx |-> t \o S_i, cap |-> LenCap],
            [t |-> "mask", id |-> t \o S_mask, fn |-> "pre_exp2",
             len |-> t \o S_len, div |-> SubVec],
            [t |-> "ld", dst |-> t \o S_x, fn |-> "v_f32_ld_tnsr_st_msk",
             idx |-> t \o S_i, idxdiv |-> UnitDiv, ptr |-> E(args, 2),
             stride |-> 1, mask |-> t \o S_mask],
            [t |-> "ld", dst |-> t \o S_y, fn |-> "v_f32_ld_tnsr_st_msk",
             idx |-> t \o S_i, idxdiv |-> UnitDiv, ptr |-> E(args, 3),
             stride |-> 1, mask |-> t \o S_mask],
            [t |-> "op", dst |-> t \o S_o, fn |-> op_name,
             ins |-> <<t \o S_x, t \o S_y>>],
            [t |-> "st", fn |-> "v_f32_st_tnsr_st_msk", idx |-> t \o S_i,
             idxdiv |-> UnitDiv, ptr |-> E(args, 1), stride |-> 1,
             mask |-> t \o S_mask, val |-> t \o S_o] >>,
         f.nm, <<t>>)

EmitVectorScalarOp(op_name, args, nm) ==
  IF Len(args) # 5 THEN Fatal(nm)
  ELSE
    LET f == LoopTempName(nm)
        t == f.name
    IN Lowered(
         << [t |-> "decl", ids |-> <<t \o S_x, t \o S_o>>],
            [t |-> "scalar", id |-> t \o S_scalar, val |-> E(args, 3)],
            [t |-> "for", idx |-> t \o S_i, init |-> 0,
             bound |-> E(args, 4), step |-> LoopStep],
            [t |-> "len", id |-> t \o S_len, of |-> E(args, 4),
             idx |-> t \o S_i, cap |-> LenCap],
            [t |-> "mask", id |-> t \o S_mask, fn |-> "pre_exp2",
             len |-> t \o S_len, div |-> SubVec],
            [t |-> "ld", dst |-> t \o S_x, fn |-> "v_f32_ld_tnsr_st_msk",
             idx |-> t \o S_i, idxdiv |-> UnitDiv, ptr |-> E(args, 2),
             stride |-> 1, mask |-> t \o S_mask],
            [t |-> "op", dst |-> t \o S_o, fn |-> op_name,
             ins |-> <<t \o S_x, t \o S_scalar>>],
            [t |-> "st", fn |-> "v_f32_st_tnsr_st_msk", idx |-> t \o S_i,
             idxdiv |-> UnitDiv, ptr |-> E(args, 1), stride |-> 1,
             mask |-> t \o S_mask, val |-> t \o S_o] >>,
         f.nm, <<t>>)

EmitVectorUnaryOp(op_name, args, nm) ==
  IF Len(args) # 4 THEN Fatal(nm)
  ELSE
    LET f == LoopTempName(nm)
        t == f.name
    IN Lowered(
         << [t |-> "size128b", id |-> t \o S_size128b, of |-> E(args, 3),
             div |-> GranuleDiv],
            [t |-> "pragma", unroll |-> 2],
            [t |-> "forv", idx |-> t \o S_vs, init |-> 0,
             bound |-> t \o S_size128b, step |-> UnaryStep],
            [t |-> "ldv", dst |-> t \o S_x, fn |-> "v_f32_ld_tnsr_b",
             idx |-> t \o S_vs, ptr |-> E(args, 2)],
            [t |-> "op", dst |-> t \o S_x, fn |-> op_name,
             ins |-> <<t \o S_x>>],
            [t |-> "stv", fn |-> "v_f32_st_tnsr_b", idx |-> t \o S_vs,
             ptr |-> E(args, 1), val |-> t \o S_x] >>,
         f.nm, <<t>>)

\* CodeGenC::VisitExpr_(CallNode) of the base class, reached for every
\* operation the DLC branches do not name: an operation with no registered
\* lowering is an unresolved call, which is fatal
CodeGenC_VisitExpr(op, args, nm) ==
  [fatal |-> TRUE, delegated |-> TRUE, out |-> <<>>, nm |-> nm, tmp |-> <<>>]

DirectCall_Reversed(fn, arity, args, nm) ==
  IF Len(args) # arity THEN Fatal(nm)
  ELSE Lowered(<<CallStmt(fn, [p \in 1..arity |-> E(args, arity - p)])>>,
               nm, <<>>)

\* the direct calls that check their argument count and print every operand
DirectCall(fn, arity, args, nm) ==
  IF Len(args) # arity THEN Fatal(nm)
  ELSE Lowered(<<CallStmt(fn, [p \in 1..arity |-> E(args, p - 1)])>>,
               nm, <<>>)

\* CodeGenTileLangDLC::VisitExpr_(const tir::CallNode*, std::ostream&)
VisitExpr_Call(op, args, nm) ==
  CASE op = "dlc_dma" ->
         IF Len(args) # 9 THEN Fatal(nm)
         ELSE Lowered(
                <<CallStmt("dlc_dma_new",
                    << E(args, 0), SpaceItem(args, 1), E(args, 2),
                       SpaceItem(args, 3), E(args, 4), E(args, 5),
                       E(args, 6), FlagItem(args, 7), FlagItem(args, 8),
                       IntText(128), IntText(2) >>)>>,
                nm, <<>>)
    [] op = "dlc_sync" -> DirectCall("dlc_sync_new", 1, args, nm)
    [] op = "dlc_sync_done" -> DirectCall("dlc_sync_done_new", 1, args, nm)
    [] op = "dlc_sync_gte" -> DirectCall("dlc_sync_gte_new", 2, args, nm)
    [] op = "dlc_sync_clear" -> DirectCall("dlc_sync_clear_new", 1, args, nm)
    [] op = "dlc_barrier" -> Lowered(<<CallStmt("barrier", <<>>)>>, nm, <<>>)
    [] op = "dlc_copy" -> DirectCall("vmem_copy", 3, args, nm)
    [] op = "dlc_fill" -> DirectCall("vmem_fill", 3, args, nm)
    [] op = "dlc_add" -> EmitVectorBinaryOp("v_f32_add_b", args, nm)
    [] op = "dlc_add_scalar" -> EmitVectorScalarOp("v_f32_add_b", args, nm)
    [] op = "dlc_mul" -> EmitVectorBinaryOp("v_f32_mul_b", args, nm)
    [] op = "dlc_mul_scalar" -> EmitVectorScalarOp("v_f32_mul_b", args, nm)
    [] op = "dlc_sub" -> EmitVectorBinaryOp("v_f32_sub_b", args, nm)
    [] op = "dlc_sub_scalar" -> EmitVectorScalarOp("v_f32_sub_b", args, nm)
    [] op = "dlc_div" -> EmitVectorBinaryOp("v_f32_div_b", args, nm)
    [] op = "dlc_div_scalar" -> EmitVectorScalarOp("v_f32_div_b", args, nm)
    [] op = "dlc_abs" -> EmitVectorUnaryOp("v_f32_abs", args, nm)
    [] OTHER -> CodeGenC_VisitExpr(op, args, nm)

\* the operands PrintExpr was invoked on while one statement was written,
\* in the order of the invocations
PrintsOfItems(items) ==
  LET sel == SelectSeq(items, LAMBDA x : x.i = "expr")
  IN [k \in 1..Len(sel) |-> sel[k].pos]

PrintsOfStmt(s) ==
  CASE s.t = "call" -> PrintsOfItems(s.args)
    [] s.t = "for" -> <<s.bound.pos>>
    [] s.t = "len" -> <<s.of.pos>>
    [] s.t = "size128b" -> <<s.of.pos>>
    [] s.t = "scalar" -> <<s.val.pos>>
    [] s.t \in {"ld", "st", "ldv", "stv"} -> <<s.ptr.pos>>
    [] OTHER -> <<>>

RECURSIVE PrintLog(_)
PrintLog(out) ==
  IF out = <<>> THEN <<>> ELSE PrintsOfStmt(Head(out)) \o PrintLog(Tail(out))

\* the identifiers one loop-nest declares or uses besides its operands
IdentsOfStmt(s) ==
  CASE s.t = "decl" -> {s.ids[k] : k \in 1..Len(s.ids)}
    [] s.t = "for" -> {s.idx}
    [] s.t = "forv" -> {s.idx, s.bound}
    [] s.t = "len" -> {s.id, s.idx}
    [] s.t = "mask" -> {s.id, s.len}
    [] s.t = "scalar" -> {s.id}
    [] s.t = "size128b" -> {s.id}
    [] s.t = "ld" -> {s.dst, s.idx, s.mask}
    [] s.t = "st" -> {s.idx, s.mask, s.val}
    [] s.t = "ldv" -> {s.dst, s.idx}
    [] s.t = "stv" -> {s.idx, s.val}
    [] s.t = "op" -> {s.dst} \cup {s.ins[k] : k \in 1..Len(s.ins)}
    [] OTHER -> {}

IdentsOf(out) == UNION {IdentsOfStmt(out[k]) : k \in 1..Len(out)}

(***************************************************************************)
(* Execution of an emitted binary-family loop                              *)
(*                                                                         *)
(*   for (int t_i = 0; t_i < N; t_i += 1024) {                             *)
(*     int t_len = min(N - t_i, 1024);                                     *)
(*     int t_mask = pre_exp2(t_len/128);                                   *)
(*     t_x = v_f32_ld_tnsr_st_msk(t_i/32, src0, 1, t_mask);  ...           *)
(*     v_f32_st_tnsr_st_msk(t_i/32, dst, 1, t_mask, t_o);                  *)
(*   }                                                                     *)
(***************************************************************************)
NValues == (0..MaxN) \cup {2048, 3000, 4096}

\* operands of a binary-family call with a literal element count
LoopArgs(count) ==
  <<VarExpr(0), VarExpr(1), VarExpr(2), VarExpr(3),
    Lit(count)>>

StmtOf(out, kind) == CHOOSE s \in {out[k] : k \in 1..Len(out)} : s.t = kind
StmtsOf(out, kind) == SelectSeq(out, LAMBDA s : s.t = kind)

\* the mask with the k low bits set, one bit per sub-vector
pre_exp2(k) == Pow2(k) - 1

\* the elements a masked vector access touches: the vector register holds
\* 8 sub-vectors of 128 elements, sub-vector j is accessed when bit j of
\* the mask is set; the offset counts 128-byte units of 32 elements
MaskedElems(unit, mask) ==
  {unit * 32 + 128 * j + e :
     j \in {b \in 0..7 : (mask \div Pow2(b)) % 2 = 1}, e \in 0..127}

LoopIdle ==
  /\ lp = <<>> /\ n = 0 /\ pcL = "idle" /\ li = 0 /\ lens = <<>>
  /\ ld0 = {} /\ ld1 = {} /\ st = {}

\* the generator writes the loop of one binary-family call
EmitLoop ==
  /\ pcL = "idle"
  /\ \E op \in BinaryOps \cup ScalarOps, count \in NValues :
       LET r == VisitExpr_Call(op, LoopArgs(count), ReserveKeywordsAsUnique)
       IN /\ lp' = r.out
          /\ n' = StmtOf(r.out, "for").bound.a.v.lo
          /\ li' = StmtOf(r.out, "for").init
  /\ pcL' = "loop"
  /\ UNCHANGED <<lens, ld0, ld1, st>>
  /\ UNCHANGED sessVars

\* one iteration of the emitted loop
LoopIter ==
  /\ pcL = "loop"
  /\ li < n
  /\ LET len == Min(n - li, StmtOf(lp, "len").cap)
         mask == pre_exp2(len \div StmtOf(lp, "mask").div)
         lds == StmtsOf(lp, "ld")
         sts == StmtOf(lp, "st")
     IN /\ lens' = Append(lens, len)
        /\ ld0' = ld0 \cup MaskedElems(li \div lds[1].idxdiv, mask)
        /\ ld1' = IF Len(lds) > 1
                  THEN ld1 \cup MaskedElems(li \div lds[2].idxdiv, mask)
                  ELSE ld1
        /\ st' = st \cup MaskedElems(li \div sts.idxdiv, mask)
  /\ li' = li + StmtOf(lp, "for").step
  /\ UNCHANGED <<lp, n, pcL>>
  /\ UNCHANGED sessVars

\* the loop guard fails
LoopExit ==
  /\ pcL = "loop"
  /\ ~(li < n)
  /\ pcL' = "done"
  /\ UNCHANGED <<lp, n, li, lens, ld0, ld1, st>>
  /\ UNCHANGED sessVars

\* operands of a unary-family call with a literal element count
UnaryArgs(count) == <<VarExpr(0), VarExpr(1), VarExpr(2), Lit(count)>>

\* the granules of 32 elements in one float8_128 vector register
VecGranules == (8 * SubVec) \div UnitDiv

\* the granules an unmasked tensor load or store at offset vs touches: the
\* whole vector register, starting at granule vs
TensorGranules(vs) == vs..(vs + VecGranules - 1)

\* the generator writes the loop of one unary-family call
EmitUnaryLoop ==
  /\ pcL = "idle"
  /\ \E op \in UnaryOps, count \in NValues :
       LET r == VisitExpr_Call(op, UnaryArgs(count), ReserveKeywordsAsUnique)
       IN /\ ~r.fatal /\ ~r.delegated
          /\ lp' = r.out
          /\ n' = StmtOf(r.out, "size128b").of.a.v.lo
          /\ li' = StmtOf(r.out, "forv").init
  /\ pcL' = "uloop"
  /\ UNCHANGED <<lens, ld0, ld1, st>>
  /\ UNCHANGED sessVars

\* one iteration of the emitted unary loop; lens records the offsets
UnaryIter ==
  /\ pcL = "uloop"
  /\ li < n \div StmtOf(lp, "size128b").div
  /\ lens' = Append(lens, li)
  /\ ld0' = ld0 \cup TensorGranules(li)
  /\ st' = st \cup TensorGranules(li)
  /\ li' = li + StmtOf(lp, "forv").step
  /\ UNCHANGED <<lp, n, pcL, ld1>>
  /\ UNCHANGED sessVars

\* the guard of the unary loop fails
UnaryExit ==
  /\ pcL = "uloop"
  /\ ~(li < n \div StmtOf(lp, "size128b").div)
  /\ pcL' = "udone"
  /\ UNCHANGED <<lp, n, li, lens, ld0, ld1, st>>
  /\ UNCHANGED sessVars

SessIdle ==
  /\ phase = "new" /\ function_names_ = <<>> /\ decl_stream = <<>>
  /\ stream = <<>> /\ name_map = EmptyMap /\ var_idmap = <<>>
  /\ alloc_storage_scope_ = EmptyMap /\ temps = <<>> /\ last = [k |-> "none"]
  /\ code = <<>>

InitLoop == SessIdle /\ LoopIdle
NextLoop ==
  \/ EmitLoop \/ LoopIter \/ LoopExit
  \/ EmitUnaryLoop \/ UnaryIter \/ UnaryExit
SpecLoop == InitLoop /\ [][NextLoop]_vars

\* C1: a finished binary-family loop over N elements has run ceil(N/1024)
\* iterations, its len values sum to N, every iteration but the last has
\* len = 1024 and the last has len = N mod 1024 (1024 when N is a non-zero
\* multiple of 1024); N = 0 runs no iteration, N = 4096 runs four of 1024,
\* N = 1050 runs 1024 then 26.
C1_LoopTiling ==
  pcL = "done" =>
    /\ Len(lens) = (n + 1023) \div 1024
    /\ SumSeq(lens) = n
    /\ \A k \in 1..(Len(lens) - 1) : lens[k] = 1024
    /\ n > 0 => lens[Len(lens)] = (IF n % 1024 = 0 THEN 1024 ELSE n % 1024)
    /\ n = 0 => lens = <<>>
    /\ n = 4096 => lens = <<1024, 1024, 1024, 1024>>
    /\ n = 1050 => lens = <<1024, 26>>

C1_Witness == pcL = "done" /\ n = 1050 /\ Len(lens) = 2 /\ lens[2] = 26

\* C2: when a binary-family loop has finished, the masked loads and the
\* masked store have touched exactly the element indices 0..N-1.
C2_MaskCoversExactly ==
  pcL = "done" =>
    /\ st = 0..(n - 1)
    /\ ld0 = 0..(n - 1)
    /\ Len(StmtsOf(lp, "ld")) > 1 => ld1 = 0..(n - 1)

(***************************************************************************)
(* The lowering session: Init, AddFunction, the visitors of a function     *)
(* body, Finish                                                            *)
(***************************************************************************)
Preamble ==
  << "// TileLang DLC Target - Generated C source for DLC toolchain",
     "// Compile with: clang -target dlc -c <file>.c",
     "",
     "#include \"typehint.h\"",
     "#include \"ldst.h\"",
     "#include \"kernel_arg_types.h\"",
     "" >>

\* CodeGenC::InitFuncState: the per-function state is cleared
InitFuncState == [nm |-> EmptyMap, ids |-> <<>>, scopes |-> EmptyMap]

\* append one emitted item to the body of the current function
Emit(item) ==
  [stream EXCEPT ![Len(stream)].body = Append(@, item)]

\* number of visitor outputs written so far in the pass
RECURSIVE BodyTotal(_)
BodyTotal(fs) ==
  IF fs = <<>> THEN 0 ELSE Len(Head(fs).body) + BodyTotal(Tail(fs))

\* number of parameters and visitor outputs written so far in the pass
RECURSIVE ItemsTotal(_)
ItemsTotal(fs) ==
  IF fs = <<>> THEN 0
  ELSE Len(Head(fs).params) + Len(Head(fs).body) + ItemsTotal(Tail(fs))

\* CodeGenTileLangDLC::Init
InitCG ==
  /\ phase = "new"
  /\ function_names_' = <<>>
  /\ decl_stream' = decl_stream \o Preamble
  /\ phase' = "ready"
  /\ UNCHANGED <<stream, name_map, var_idmap, alloc_storage_scope_, temps,
                 last, code>>
  /\ UNCHANGED loopVars

\* CodeGenTileLangDLC::PrintStorageScope: no scope has a prefix
PrintStorageScope(scope) == ""

NoPtr == "<no pointer type>"

\* A parameter is [hint, handle, ptr, listed]: its name hint, whether its
\* dtype is a handle, the storage scope of its pointer type annotation
\* (NoPtr when the annotation is not a pointer type) and whether it is
\* listed in the function's kNonRestrictParams.
Param(hint, handle, ptr, listed) ==
  [hint |-> hint, handle |-> handle, ptr |-> ptr, listed |-> listed]

ParamDecl_IgnoreNoAlias(p, vid, scopes, no_alias) ==
  IF p.handle
  THEN IF p.ptr = "grid_constant"
       THEN [const |-> TRUE, scope |-> "", restrict |-> FALSE, vid |-> vid]
       ELSE [const |-> FALSE,
             scope |-> IF p.hint \in DOMAIN scopes
                       THEN PrintStorageScope(scopes[p.hint]) ELSE "",
             restrict |-> ~p.listed,
             vid |-> vid]
  ELSE [const |-> FALSE, scope |-> "", restrict |-> FALSE, vid |-> vid]

\* the declaration of one parameter; restrict records that PrintRestrict
\* is applied to it
ParamDecl(p, vid, scopes, no_alias) ==
  IF p.handle
  THEN IF p.ptr = "grid_constant"
       THEN [const |-> TRUE, scope |-> "", restrict |-> FALSE, vid |-> vid]
       ELSE [const |-> FALSE,
             scope |-> IF p.hint \in DOMAIN scopes
                       THEN PrintStorageScope(scopes[p.hint]) ELSE "",
             restrict |-> no_alias /\ ~p.listed,
             vid |-> vid]
  ELSE [const |-> FALSE, scope |-> "", restrict |-> FALSE, vid |-> vid]

\* the parameter loop: AllocVarID and the declaration, left to right
RECURSIVE BindParams(_, _, _, _, _)
BindParams(nm, params, scopes, no_alias, done) ==
  IF params = <<>> THEN [nm |-> nm, vids |-> done.vids, decls |-> done.decls]
  ELSE LET a == AllocVarID(nm, Head(params).hint)
       IN BindParams(a.nm, Tail(params), scopes, no_alias,
            [vids |-> Append(done.vids, a.vid),
             decls |-> Append(done.decls,
                         ParamDecl(Head(params), a.vid, scopes, no_alias))])

FuncName_HintOnly(name_hint, global_symbol) == name_hint

\* the entry symbol: the global_symbol attribute when present, else the
\* name hint of the global variable
FuncName(name_hint, global_symbol) ==
  IF global_symbol # "" THEN global_symbol ELSE name_hint

\* CodeGenTileLangDLC::AddFunction up to the opening brace of the body
AddFunctionWith(name_hint, global_symbol, no_alias, params) ==
  /\ phase = "ready"
  /\ Len(function_names_) < MaxFuncs
  /\ LET func_name == FuncName(name_hint, global_symbol)
         b == BindParams(ReserveKeywordsAsUnique, params,
                         InitFuncState.scopes, no_alias,
                         [vids |-> InitFuncState.ids, decls |-> <<>>])
     IN /\ function_names_' = Append(function_names_, func_name)
        /\ name_map' = b.nm
        /\ var_idmap' = b.vids
        /\ alloc_storage_scope_' = InitFuncState.scopes
        /\ stream' = Append(stream, [name |-> func_name, params |-> b.decls,
                                     body |-> <<>>, open |-> TRUE])
        /\ last' = [k |-> "func", name |-> func_name,
                    name_hint |-> name_hint, global_symbol |-> global_symbol,
                    no_alias |-> no_alias, params |-> params,
                    decls |-> b.decls]
  /\ phase' = "body"
  /\ UNCHANGED <<decl_stream, temps, code>>
  /\ UNCHANGED loopVars

\* AddFunction: the end of the body and the closing brace
AddFunctionEnd ==
  /\ phase = "body"
  /\ stream' = [stream EXCEPT ![Len(stream)].open = FALSE]
  /\ phase' = "ready"
  /\ UNCHANGED <<function_names_, decl_stream, name_map, var_idmap,
                 alloc_storage_scope_, temps, last, code>>
  /\ UNCHANGED loopVars

\* a failed ICHECK ends the process
Abort(what) ==
  /\ phase' = "fatal"
  /\ last' = what
  /\ UNCHANGED <<function_names_, decl_stream, stream, name_map, var_idmap,
                 alloc_storage_scope_, temps, code>>
  /\ UNCHANGED loopVars

NoScope == "<none>"

\* the address-space attribute of a local buffer declaration
AddrSpaceAttr(vid, scope) ==
  LET by_scope ==
        IF scope = "local" \/ scope = "vmem" THEN " VMEM_SPACE "
        ELSE IF scope = "semaphore" THEN " SEMAPHORE_SPACE "
        ELSE ""
  IN IF Contains(vid, S_sync) \/ Contains(vid, S_flag)
     THEN " SEMAPHORE_SPACE "
     ELSE by_scope

\* alloc_storage_scope_.find(buffer_var), "local" when there is no entry
RecordedScope(scopes, hint) ==
  IF hint \in DOMAIN scopes THEN scopes[hint] ELSE "local"

\* AllocateNode::ConstantAllocationSize: the product of the extents when
\* they are all integer literals, 0 when one of them is not
ConstantAllocationSize(extent) ==
  IF extent.k = "int" THEN extent.v.lo ELSE 0

\* CodeGenTileLangDLC::VisitStmt_(const tir::AllocateNode*); `declared` is
\* the storage scope of the buffer's pointer type, which the visitor does
\* not read
VisitStmt_AllocateWith(hint, declared, cond_zero, extent) ==
  /\ phase = "body"
  /\ IF cond_zero
     THEN Abort([k |-> "alloc", fatal |-> TRUE, hint |-> hint,
                 declared |-> declared, extent |-> extent])
     ELSE
       LET a == AllocVarID(name_map, hint)
           scope == RecordedScope(alloc_storage_scope_, hint)
           attr == AddrSpaceAttr(a.vid, scope)
           constant_size == ToSizeT(ConstantAllocationSize(extent))
       IN IF ~(constant_size.wrap > 0 \/ constant_size.v > 0)
          THEN /\ phase' = "fatal"
               /\ name_map' = a.nm
               /\ var_idmap' = Append(var_idmap, a.vid)
               /\ last' = [k |-> "alloc", fatal |-> TRUE, hint |-> hint,
                           declared |-> declared, extent |-> extent]
               /\ UNCHANGED <<function_names_, decl_stream, stream,
                              alloc_storage_scope_, temps, code>>
               /\ UNCHANGED loopVars
          ELSE /\ name_map' = a.nm
               /\ var_idmap' = Append(var_idmap, a.vid)
               /\ stream' = Emit([t |-> "alloc", attr |-> attr,
                                  vid |-> a.vid, size |-> constant_size])
               /\ last' = [k |-> "alloc", fatal |-> FALSE, hint |-> hint,
                           declared |-> declared, scope |-> scope,
                           vid |-> a.vid, attr |-> attr,
                           size |-> constant_size, extent |-> extent]
               /\ UNCHANGED <<phase, function_names_, decl_stream,
                              alloc_storage_scope_, temps, code>>
               /\ UNCHANGED loopVars

\* CodeGenTileLangDLC::VisitStmt_(const tir::AttrStmtNode*), thread_extent
\* with a thread tag: the thread variable is bound and declared
VisitStmt_AttrStmtWith(hint) ==
  /\ phase = "body"
  /\ LET a == AllocVarID(name_map, hint)
     IN /\ name_map' = a.nm
        /\ var_idmap' = Append(var_idmap, a.vid)
        /\ stream' = Emit([t |-> "threadvar", vid |-> a.vid])
        /\ last' = [k |-> "thread", vid |-> a.vid]
  /\ UNCHANGED <<phase, function_names_, decl_stream, alloc_storage_scope_,
                 temps, code>>
  /\ UNCHANGED loopVars

\* what VisitExpr_ leaves behind for one call
CallResult(op, args, r) ==
  [k |-> "call", op |-> op, args |-> args, fatal |-> r.fatal,
   delegated |-> r.delegated, out |-> r.out, tmp |-> r.tmp]

TempEntries(r) ==
  [k \in 1..Len(r.tmp) |->
     [f |-> Len(function_names_), t |-> r.tmp[k], ids |-> IdentsOf(r.out)]]

\* VisitExpr_ on its own: the text goes to the caller's stream
VisitExpr_With(op, args) ==
  /\ phase = "body"
  /\ LET r == VisitExpr_Call(op, args, name_map)
     IN /\ last' = CallResult(op, args, r)
        /\ name_map' = r.nm
        /\ temps' = temps \o TempEntries(r)
        /\ phase' = IF r.fatal THEN "fatal" ELSE phase
  /\ UNCHANGED <<function_names_, decl_stream, stream, var_idmap,
                 alloc_storage_scope_, code>>
  /\ UNCHANGED loopVars

\* an evaluated call statement: VisitExpr_ and the text it wrote appended
\* to the body of the function
VisitStmt_EvaluateWith(op, args) ==
  /\ phase = "body"
  /\ LET r == VisitExpr_Call(op, args, name_map)
     IN /\ last' = CallResult(op, args, r)
        /\ name_map' = r.nm
        /\ temps' = temps \o TempEntries(r)
        /\ phase' = IF r.fatal THEN "fatal" ELSE phase
        /\ stream' = IF r.fatal THEN stream
                     ELSE Emit([t |-> "eval", out |-> r.out])
  /\ UNCHANGED <<function_names_, decl_stream, var_idmap,
                 alloc_storage_scope_, code>>
  /\ UNCHANGED loopVars

\* CodeGenTileLangDLC::Finish
Finish ==
  /\ phase = "ready"
  /\ code' = [decl |-> decl_stream, body |-> stream]
  /\ phase' = "finished"
  /\ UNCHANGED <<function_names_, decl_stream, stream, name_map, var_idmap,
                 alloc_storage_scope_, temps, last>>
  /\ UNCHANGED loopVars

(***************************************************************************)
(* Lowering of single calls inside a function body                         *)
(***************************************************************************)
\* the state inside the body of a function "main" without parameters
InBody ==
  /\ phase = "body"
  /\ function_names_ = <<"main">>
  /\ decl_stream = Preamble
  /\ stream = <<[name |-> "main", params |-> <<>>, body |-> <<>>,
                 open |-> TRUE]>>
  /\ name_map = ReserveKeywordsAsUnique
  /\ var_idmap = <<>>
  /\ alloc_storage_scope_ = EmptyMap
  /\ temps = <<>>
  /\ last = [k |-> "func", name |-> "main", name_hint |-> "main",
             global_symbol |-> "", no_alias |-> FALSE, params |-> <<>>,
             decls |-> <<>>]
  /\ code = <<>>

DefaultArgs(k) == [p \in 1..k |-> VarExpr(p - 1)]

SpaceVals ==
  {Lit(v) : v \in -1..6}
    \cup {IntImm(Int64(1, 1)), IntImm(Int64(1, 7)), IntImm(Int64(-1, 2)),
          VarExpr(1)}

FlagVals == {Lit(0), Lit(5), IntImm(Int64(1, 0)), VarExpr(7)}

DmaArgs(s1, s2, f1, f2) ==
  <<VarExpr(0), s1, VarExpr(2), s2, VarExpr(4), VarExpr(5), VarExpr(6),
    f1, f2>>

ArgChoices(op) ==
  {DefaultArgs(k) : k \in 0..MaxArgs}
    \cup (IF op = "dlc_dma"
          THEN {DmaArgs(s1, s2, Lit(0), VarExpr(8)) :
                  s1 \in SpaceVals, s2 \in SpaceVals}
                 \cup {DmaArgs(Lit(1), Lit(2), f1, f2) :
                         f1 \in FlagVals, f2 \in FlagVals}
          ELSE {})

LowerCall ==
  /\ Len(temps) < MaxCalls
  /\ \E op \in CatalogOps : \E args \in ArgChoices(op) :
       VisitExpr_With(op, args)

InitCall == InBody /\ LoopIdle
NextCall == LowerCall
SpecCall == InitCall /\ [][NextCall]_vars

IsCall == last.k = "call"
Emitted == IsCall /\ ~last.fatal

\* C3: a call whose argument count differs from the arity the catalog
\* declares for its operation ends in a fatal failure and writes no text.
C3_ArityMismatchFatal ==
  (IsCall /\ Len(last.args) # CatalogArity(last.op)) =>
    (last.fatal /\ last.out = <<>>)

\* C4: in an emitted dlc_dma call each flag operand (positions 7 and 8) is
\* the token NULL_SEMAPHORE when it is the integer literal 0, and is
\* otherwise printed by PrintExpr unchanged.
C4_FlagSentinel ==
  (Emitted /\ last.op = "dlc_dma") =>
    \A p \in {7, 8} :
      LET arg == last.args[p + 1]
          item == last.out[1].args[p + 1]
      IN IF arg.k = "int" /\ arg.v.hi = 0 /\ arg.v.lo = 0
         THEN item = [i |-> "sym", s |-> "NULL_SEMAPHORE"]
         ELSE item = [i |-> "expr", pos |-> p, a |-> arg]

C4_Witness ==
  /\ Emitted /\ last.op = "dlc_dma"
  /\ last.args[8] = Lit(0) /\ last.args[9] = IntImm(Int64(1, 0))
  /\ last.out[1].args[8] = Sym("NULL_SEMAPHORE")
  /\ last.out[1].args[9].i = "expr"

SpaceNames == <<"SMEM", "HBM", "VMEM", "CMEM", "IMEM", "SEMAPHORE">>

\* C5: in an emitted dlc_dma call each space-code operand (positions 1 and
\* 3) that is an integer literal v is the symbolic name of v when
\* 0 <= v <= 5 and the decimal literal of v for every other v; a
\* non-literal operand is printed by PrintExpr.
C5_SpaceCode ==
  (Emitted /\ last.op = "dlc_dma") =>
    \A p \in {1, 3} :
      LET arg == last.args[p + 1]
          item == last.out[1].args[p + 1]
      IN IF arg.k = "int"
         THEN IF arg.v.hi = 0 /\ arg.v.lo \in 0..5
              THEN item = [i |-> "sym", s |-> SpaceNames[arg.v.lo + 1]]
              ELSE item = [i |-> "num", v |-> arg.v]
         ELSE item = [i |-> "expr", pos |-> p, a |-> arg]

\* C6: for every emitted call PrintExpr is invoked on each operand exactly
\* once, in the order of the operands.
C6_PrintOnceInOrder ==
  Emitted =>
    PrintLog(last.out) = [k \in 1..Len(last.args) |-> k - 1]

UnaryShape(out, nargs) ==
  /\ \E k \in 1..Len(out) :
       /\ out[k].t = "size128b" /\ out[k].div = 32
       /\ out[k].of.pos = nargs - 1
       /\ \E j \in 1..Len(out) :
            /\ out[j].t = "forv" /\ out[j].init = 0 /\ out[j].step = 32
            /\ out[j].bound = out[k].id
  /\ \E k \in 1..Len(out) :
       out[k].t = "ldv" /\ out[k].fn = "v_f32_ld_tnsr_b"
  /\ \E k \in 1..Len(out) :
       out[k].t = "stv" /\ out[k].fn = "v_f32_st_tnsr_b"
  /\ Cardinality({k \in 1..Len(out) : out[k].t = "op"}) = 1
  /\ \A k \in 1..Len(out) : out[k].t \notin {"mask", "ld", "st", "call"}

\* C7: a call of a unary-family operation with the arity of the catalog is
\* lowered by the DLC generator itself, to the unary loop shape: bound
\* N / 32, index from 0 in steps of 32, unmasked load, one vector
\* instruction, unmasked store.
C7_UnaryLoopShape ==
  (IsCall /\ last.op \in UnaryOps
     /\ Len(last.args) = CatalogArity(last.op)) =>
    (~last.delegated /\ ~last.fatal
       /\ UnaryShape(last.out, Len(last.args)))

(***************************************************************************)
(* Local buffer declarations inside a function body                        *)
(***************************************************************************)
AllocHints ==
  { <<"b", "u", "f">>,
    S_sync \o <<"_", "a">>,
    <<"m", "y", "_">> \o S_flag,
    <<"S", "y", "n", "c">>,
    <<"f", "l", "a", "_", "g">> }

Scopes == {"local", "vmem", "semaphore", "global", "shared", "unknown",
           NoScope}

Extents == {Lit(0), Lit(16), Lit(-4), VarExpr(0)}

\* <<identifier, declared scope, condition is zero, extent>>
AllocInputs ==
  {<<h, sc, FALSE, Lit(16)>> : h \in AllocHints, sc \in Scopes}
    \cup {<<<<"b", "u", "f">>, "local", c, e>> :
            c \in BOOLEAN, e \in Extents}

AllocateAny ==
  /\ BodyTotal(stream) < MaxAllocs
  /\ \E inp \in AllocInputs :
       VisitStmt_AllocateWith(inp[1], inp[2], inp[3], inp[4])

InitAlloc == InBody /\ LoopIdle
NextAlloc == AllocateAny
SpecAlloc == InitAlloc /\ [][NextAlloc]_vars

IsAlloc == last.k = "alloc"

\* C8: a declared local buffer is qualified SEMAPHORE_SPACE when its
\* identifier contains "sync" or "flag", otherwise VMEM_SPACE when its
\* declared scope is "local" or "vmem", otherwise it has no qualifier.
C8_AddressSpaceOrder ==
  (IsAlloc /\ ~last.fatal) =>
    last.attr =
      (IF Contains(last.vid, S_sync) \/ Contains(last.vid, S_flag)
       THEN " SEMAPHORE_SPACE "
       ELSE IF last.declared \in {"local", "vmem"} THEN " VMEM_SPACE "
       ELSE "")

\* a compile-time constant strictly greater than zero
PositiveConstant(extent) ==
  extent.k = "int" /\ (extent.v.hi > 0 \/ (extent.v.hi = 0 /\ extent.v.lo > 0))

\* C12: an allocation is lowered to an array declaration only when its size
\* is a compile-time constant greater than zero; a non-constant, zero or
\* negative size ends in a fatal failure, and every array declaration in
\* the emitted text has a positive size.
C12_NonPositiveSizeFatal ==
  /\ IsAlloc =>
       /\ ~PositiveConstant(last.extent) => (last.fatal /\ phase = "fatal")
       /\ ~last.fatal => PositiveConstant(last.extent)
  /\ \A f \in 1..Len(stream) : \A b \in 1..Len(stream[f].body) :
       stream[f].body[b].t = "alloc" =>
         (stream[f].body[b].size.wrap = 0 /\ stream[f].body[b].size.v > 0)

(***************************************************************************)
(* The whole pass                                                          *)
(***************************************************************************)
UserNames == { S_dlc_vec, S_dlc_vec \o <<"_", "1">>, S_dlc_vec \o S_i }

ThreadNames == { <<"b", "x">> }

GlobalSymbols == {"", "main"}

SessOps == {"dlc_add", "dlc_abs"}

RECURSIVE SeqsUpTo(_, _)
SeqsUpTo(S, k) ==
  IF k = 0 THEN {<<>>}
  ELSE LET shorter == SeqsUpTo(S, k - 1)
       IN shorter \cup {Append(q, x) : q \in shorter, x \in S}

\* pointer parameters of global scope, none of them listed as aliasing
PointerParams(hints) ==
  [k \in 1..Len(hints) |-> Param(hints[k], TRUE, "global", FALSE)]

AddFunction ==
  \E sym \in GlobalSymbols, hints \in SeqsUpTo(UserNames, MaxParams) :
    /\ ItemsTotal(stream) + Len(hints) <= MaxItems
    /\ AddFunctionWith("kernel", sym, TRUE, PointerParams(hints))

VisitStmt_Allocate ==
  /\ ItemsTotal(stream) < MaxItems
  /\ \E hint \in UserNames :
       VisitStmt_AllocateWith(hint, "local", FALSE, Lit(16))

VisitStmt_AttrStmt ==
  /\ ItemsTotal(stream) < MaxItems
  /\ \E hint \in ThreadNames : VisitStmt_AttrStmtWith(hint)

VisitStmt_Evaluate ==
  /\ ItemsTotal(stream) < MaxItems
  /\ \E op \in SessOps :
       VisitStmt_EvaluateWith(op, DefaultArgs(CatalogArity(op)))

Init == SessIdle /\ LoopIdle
Next ==
  \/ InitCG
  \/ AddFunction
  \/ VisitStmt_Allocate
  \/ VisitStmt_AttrStmt
  \/ VisitStmt_Evaluate
  \/ AddFunctionEnd
  \/ Finish
Spec == Init /\ [][Next]_vars

Range(q) == {q[k] : k \in 1..Len(q)}

C10_NoCollisionWithBound ==
  \A a \in 1..Len(temps) :
    temps[a].f = Len(function_names_) =>
      ({temps[a].t} \cup temps[a].ids) \cap Range(var_idmap) = {}

(***************************************************************************)
(* The signature of one function                                           *)
(***************************************************************************)
MaxSigParams == 2

SigHints == { <<"A">>, <<"B">> }

SigParams ==
  {Param(h, TRUE, ptr, listed) :
     h \in SigHints, ptr \in {NoPtr, "global", "grid_constant"},
     listed \in BOOLEAN}
    \cup {Param(h, FALSE, NoPtr, FALSE) : h \in SigHints}

\* the state after Init, before the first function
Ready ==
  /\ phase = "ready" /\ function_names_ = <<>> /\ decl_stream = Preamble
  /\ stream = <<>> /\ name_map = EmptyMap /\ var_idmap = <<>>
  /\ alloc_storage_scope_ = EmptyMap /\ temps = <<>> /\ last = [k |-> "none"]
  /\ code = <<>>

AddSignature ==
  /\ function_names_ = <<>>
  /\ \E no_alias \in BOOLEAN, params \in SeqsUpTo(SigParams, MaxSigParams) :
       AddFunctionWith("kernel", "", no_alias, params)

InitSig == Ready /\ LoopIdle
NextSig == AddSignature \/ AddFunctionEnd
SpecSig == InitSig /\ [][NextSig]_vars

IsFunc == last.k = "func"

\* C11 (as claimed): PrintRestrict is applied to a handle parameter that is
\* not grid_constant exactly when the parameter is not listed in the
\* non-restrict set; a grid_constant parameter is a const pointer with no
\* address-space annotation and no restrict.
C11_RestrictIffNotListed ==
  IsFunc =>
    \A k \in 1..Len(last.params) :
      LET p == last.params[k]
          d == last.decls[k]
      IN p.handle =>
           IF p.ptr = "grid_constant"
           THEN d.const /\ d.scope = "" /\ ~d.restrict
           ELSE ~d.const /\ (d.restrict <=> ~p.listed)

\* C11 (amended): PrintRestrict is applied to a handle parameter that is
\* not grid_constant exactly when the function has the no-alias attribute
\* and the parameter is not listed in the non-restrict set; a grid_constant
\* parameter is a const pointer with no address-space annotation and no
\* restrict.
C11_RestrictIffNoAliasAndNotListed ==
  IsFunc =>
    \A k \in 1..Len(last.params) :
      LET p == last.params[k]
          d == last.decls[k]
      IN p.handle =>
           IF p.ptr = "grid_constant"
           THEN d.const /\ d.scope = "" /\ ~d.restrict
           ELSE ~d.const /\ (d.restrict <=> (last.no_alias /\ ~p.listed))

C11_Witness ==
  /\ IsFunc /\ Len(last.params) = 2
  /\ last.params[1].handle /\ last.params[1].ptr = "global"
  /\ ~last.params[1].listed /\ ~last.no_alias /\ ~last.decls[1].restrict
  /\ last.params[2].ptr = "grid_constant" /\ last.decls[2].const

\* C13: Finish returns the preamble followed by one definition per
\* AddFunction call, in call order, and function_names_ holds as many
\* names in the same order, each the global_symbol of its function when
\* present and its name hint otherwise.
C13_FinishOrder ==
  /\ phase = "finished" =>
       /\ code.decl = Preamble
       /\ Len(code.body) = Len(function_names_)
       /\ \A k \in 1..Len(code.body) :
            code.body[k].name = function_names_[k] /\ ~code.body[k].open
  /\ IsFunc =>
       LET sym == IF last.global_symbol # "" THEN last.global_symbol
                  ELSE last.name_hint
       IN /\ function_names_[Len(function_names_)] = sym
          /\ Len(stream) = Len(function_names_)
          /\ stream[Len(stream)].name = sym

C13_Witness ==
  /\ phase = "finished"
  /\ function_names_ = <<"kernel", "main">>
  /\ Len(code.body) = 2
  /\ code.body[1].name = "kernel" /\ code.body[2].name = "main"

\* C14: a synchronization operation that is lowered yields exactly one
\* target call and no temporary name: for dlc_barrier the call barrier()
\* without arguments, for dlc_sync, dlc_sync_done, dlc_sync_clear and
\* dlc_sync_gte a call whose arguments are the operands of the operation,
\* printed unchanged, in the same number and order.
C14_SyncDirectCall ==
  (Emitted /\ last.op \in SyncOps) =>
    /\ ~last.delegated
    /\ last.tmp = <<>>
    /\ Len(last.out) = 1
    /\ last.out[1].t = "call"
    /\ IF last.op = "dlc_barrier"
       THEN last.out[1].fn = "barrier" /\ last.out[1].args = <<>>
       ELSE /\ Len(last.out[1].args) = Len(last.args)
            /\ \A p \in 1..Len(last.args) :
                 last.out[1].args[p] =
                   [i |-> "expr", pos |-> p - 1, a |-> last.args[p]]

C14_Witness ==
  /\ Emitted /\ last.op = "dlc_sync_gte"
  /\ last.args = <<VarExpr(0), VarExpr(1)>>
  /\ last.out[1].fn = "dlc_sync_gte_new"
  /\ Len(last.out[1].args) = 2

\* C15: when a unary-family loop over N elements has finished and N is
\* divisible by 32, with B = N / 32 its loads and its stores have touched
\* every granule in 0..B-1, no granule >= B, and no granule twice.
C15_UnaryLoopInBounds ==
  (pcL = "udone" /\ n % 32 = 0) =>
    LET B == n \div 32
    IN /\ ld0 = 0..(B - 1)
       /\ st = 0..(B - 1)
       /\ \A a, b \in 1..Len(lens) :
            a # b => TensorGranules(lens[a]) \cap TensorGranules(lens[b]) = {}

====
